---- MODULE Spec2Model ----
(***************************************************************************)
(* The conversational tutoring session of the optics teaching tool:        *)
(* askOpticsExpert (the Gemini service wrapper) and the AIChat component   *)
(* that owns the message history, the input box and the loading flag,      *)
(* together with App's language toggle.                                    *)
(*                                                                         *)
(* A text is a sequence of tokens: one token per character for what the    *)
(* user types (so that String.trim is computed), one token per sentence    *)
(* for the fixed strings of the source.  The empty string is << >>.  The    *)
(* Chinese strings of the source are written as ASCII tokens "zh: ...".    *)
(***************************************************************************)
EXTENDS Naturals, Sequences, FiniteSets

VARIABLES
    language,     \* App: useState<Language>('zh')
    messages,     \* AIChat: useState<ChatMessage[]>([])
    input,        \* AIChat: useState('')
    isLoading,    \* AIChat: useState(false)
    initialized,  \* AIChat: useRef(false)
    mounted,      \* whether AIChat's mount effect has run
    calls,        \* the invocations of askOpticsExpert, in call order
    backendLog,   \* the requests handed to ai.models.generateContent
    lastEvent,    \* the kind of the UI event handled last
    activated     \* the languages AIChat has been rendered in so far

vars == <<language, messages, input, isLoading, initialized, mounted,
          calls, backendLog, lastEvent, activated>>

\* ------------------------------------------------------------------ bounds

\* The number of askOpticsExpert invocations explored.
MaxTurns == 2

\* What the user may type into the input box.
Inputs == { << >>, <<" ">>, <<"a">>, <<" ", "b", " ">> }

\* What a successful generateContent may carry as response.text
\* (hasText = FALSE is the getter returning undefined).
ReplyTexts == { << >>, <<"Low angle light skims the flat surface...">> }

\* ------------------------------------------------------------------- types

Languages == {"en", "zh"}

Model == "gemini-2.5-flash"

\* temperature: 0.7, in tenths
TemperatureTenths == 7

Responses ==
    [ok : {TRUE}, hasText : {TRUE}, text : ReplyTexts]
        \cup {[ok |-> TRUE, hasText |-> FALSE, text |-> << >>]}
        \cup {[ok |-> FALSE, hasText |-> FALSE, text |-> << >>]}

NoResponse == [ok |-> FALSE, hasText |-> FALSE, text |-> <<"(pending)">>]

\* ------------------------------------------------------- string primitives

IsSpace(c) == c = " "

RECURSIVE TrimStart(_)
TrimStart(s) ==
    IF s # << >> /\ IsSpace(Head(s)) THEN TrimStart(Tail(s)) ELSE s

RECURSIVE TrimEnd(_)
TrimEnd(s) ==
    IF s # << >> /\ IsSpace(s[Len(s)])
    THEN TrimEnd(SubSeq(s, 1, Len(s) - 1))
    ELSE s

\* String.prototype.trim
Trim(s) == TrimEnd(TrimStart(s))

\* JavaScript truthiness of a string: only '' is falsy
Truthy(s) == Len(s) > 0

\* --------------------------------------------------------- askOpticsExpert

\* A slip: the directive does not follow the language.
LangInstructionEnglishOnly(lang) == <<"Reply in English.">>

LangInstruction(lang) ==
    IF lang = "zh"
    THEN <<"Reply in Simplified Chinese.",
           "Explain concepts using standard Machine Vision terminology in Chinese.">>
    ELSE <<"Reply in English.">>

PromptHead ==
    <<"You are an expert Professor of Machine Vision and Optics.",
      "Your goal is to explain lighting techniques to students simply and clearly.",
      "Current Topic: Bright Field vs. Dark Field Lighting.",
      "Rules:",
      "1. ">>

PromptTail ==
    <<"2. Keep answers concise (under 150 words) unless asked for detail.",
      "3. Use analogies (e.g., like a mirror or like driving in fog).",
      "4. Focus on the physics of reflection (Angle of Incidence = Angle of Reflection).",
      "5. Formatting: Use bullet points for clarity.">>

SystemInstruction(lang) == PromptHead \o LangInstruction(lang) \o PromptTail

Turn(role, text) == [role |-> role, parts |-> <<[text |-> text]>>]

\* A slip: only the last message of the history is sent.
ContentsWindowed(history, query) ==
    [i \in 1..(IF Len(history) > 1 THEN 1 ELSE Len(history)) |->
        Turn(history[Len(history)].role, history[Len(history)].text)]
        \o <<Turn("user", query)>>

Contents(history, query) ==
    [i \in 1..Len(history) |-> Turn(history[i].role, history[i].text)]
        \o <<Turn("user", query)>>

NoAnswerText(lang) ==
    IF lang = "zh"
    THEN <<"zh: Sorry, I cannot answer optics questions right now.">>
    ELSE <<"I couldn't generate a response regarding optics at the moment.">>

\* A slip: the error string of the other language.
ErrorTextSwapped(lang) ==
    IF lang = "zh"
    THEN <<"Error connecting to the Optics AI Tutor. Please check your API key.">>
    ELSE <<"zh: Failed to connect to the AI tutor, please check the API key.">>

ErrorText(lang) ==
    IF lang = "zh"
    THEN <<"zh: Failed to connect to the AI tutor, please check the API key.">>
    ELSE <<"Error connecting to the Optics AI Tutor. Please check your API key.">>

\* The request askOpticsExpert hands to generateContent.
AskRequest(query, history, lang) ==
    [model             |-> Model,
     contents          |-> Contents(history, query),
     systemInstruction |-> SystemInstruction(lang),
     temperature       |-> TemperatureTenths]

\* A slip: return response.text, without the fallback.
ReplyNoFallback(resp, lang) == resp.text

\* A slip: the fallback replaces every reply.
ReplyAlwaysFallback(resp, lang) == NoAnswerText(lang)

\* return response.text || (fallback)
ReplyOrFallback(resp, lang) ==
    IF resp.hasText /\ Truthy(resp.text) THEN resp.text ELSE NoAnswerText(lang)

\* A slip: no try/catch around the call, the error rejects the promise.
AskOutcomeNoCatch(resp, lang) ==
    IF resp.ok
    THEN [status |-> "fulfilled", answer |-> ReplyOrFallback(resp, lang),
          logged |-> FALSE]
    ELSE [status |-> "rejected", answer |-> << >>, logged |-> FALSE]

\* How the promise of askOpticsExpert settles once generateContent has
\* settled with resp: the try block's return, or the catch block's.
AskOutcome(resp, lang) ==
    IF resp.ok
    THEN [status |-> "fulfilled", answer |-> ReplyOrFallback(resp, lang),
          logged |-> FALSE]
    ELSE [status |-> "fulfilled", answer |-> ErrorText(lang),
          logged |-> TRUE]

\* ------------------------------------------------------------------ AIChat

WelcomeText(lang) ==
    IF lang = "zh"
    THEN <<"zh: Hello! I am your optics teaching assistant.">>
    ELSE <<"Hi! I'm your Optics Tutor. Ask me anything about lighting angles, reflection, or detection techniques.">>

Message(role, text) == [role |-> role, text |-> text]

\* No promise of askOpticsExpert has settled without its awaiting
\* handleSend having resumed: a resumption is a microtask, and runs before
\* any further UI event or backend completion is handled.
Quiescent == \A i \in 1..Len(calls) : calls[i].status # "fulfilled"

Init ==
    /\ language = "zh"
    /\ messages = << >>
    /\ input = << >>
    /\ isLoading = FALSE
    /\ initialized = FALSE
    /\ mounted = FALSE
    /\ calls = << >>
    /\ backendLog = << >>
    /\ lastEvent = "other"
    /\ activated = {}

\* A slip: the effect seeds the history on every run.
WelcomeEffectAlways(lang) ==
    /\ messages' = <<Message("model", WelcomeText(lang))>>
    /\ initialized' = TRUE

\* The welcome effect's body, for the language of the render it belongs to.
WelcomeEffect(lang) ==
    IF ~initialized
    THEN /\ messages' = <<Message("model", WelcomeText(lang))>>
         /\ initialized' = TRUE
    ELSE UNCHANGED <<messages, initialized>>

\* First render of AIChat, then its effects.
Mount ==
    /\ ~mounted
    /\ mounted' = TRUE
    /\ WelcomeEffect(language)
    /\ lastEvent' = "other"
    /\ activated' = {language}
    /\ UNCHANGED <<language, input, isLoading, calls, backendLog>>

\* App.toggleLanguage, the re-render, and the welcome effect that isZh
\* having changed re-runs.
ToggleLanguage ==
    /\ mounted
    /\ Quiescent
    /\ language' = (IF language = "en" THEN "zh" ELSE "en")
    /\ WelcomeEffect(language')
    /\ lastEvent' = "other"
    /\ activated' = activated \cup {language'}
    /\ UNCHANGED <<input, isLoading, mounted, calls, backendLog>>

\* onChange of the input box
OnChange ==
    /\ mounted
    /\ Quiescent
    /\ \E t \in Inputs : input' = t
    /\ lastEvent' = "other"
    /\ UNCHANGED <<language, messages, isLoading, initialized, mounted,
                   calls, backendLog, activated>>

\* A slip: the early return does not look at isLoading.
SendRejectedIgnoresLoading == ~Truthy(Trim(input))

\* A slip: the early return does not look at the input.
SendRejectedIgnoresBlank == isLoading

\* handleSend's early return
SendRejected == ~Truthy(Trim(input)) \/ isLoading

\* A slip: the user message is not appended before the call.
HandleSendAppendsLater ==
    IF SendRejected
    THEN UNCHANGED <<messages, input, isLoading, calls, backendLog>>
    ELSE /\ Len(calls) < MaxTurns
         /\ messages' = messages
         /\ input' = << >>
         /\ isLoading' = TRUE
         /\ calls' = Append(calls,
                [query    |-> input,
                 history  |-> messages,
                 language |-> language,
                 status   |-> "pending",
                 response |-> NoResponse,
                 answer   |-> << >>,
                 logged   |-> FALSE])
         /\ backendLog' = Append(backendLog,
                [call    |-> Len(calls) + 1,
                 request |-> AskRequest(input, messages, language)])

\* A slip: the trimmed input is sent, the raw input is stored.
HandleSendTrimsQuery ==
    IF SendRejected
    THEN UNCHANGED <<messages, input, isLoading, calls, backendLog>>
    ELSE /\ Len(calls) < MaxTurns
         /\ messages' = Append(messages, Message("user", input))
         /\ input' = << >>
         /\ isLoading' = TRUE
         /\ calls' = Append(calls,
                [query    |-> Trim(input),
                 history  |-> messages,
                 language |-> language,
                 status   |-> "pending",
                 response |-> NoResponse,
                 answer   |-> << >>,
                 logged   |-> FALSE])
         /\ backendLog' = Append(backendLog,
                [call    |-> Len(calls) + 1,
                 request |-> AskRequest(Trim(input), messages, language)])

\* handleSend up to its await: the three state updates, and the synchronous
\* part of askOpticsExpert(input, messages, language), which builds the
\* request and issues it.  React commits the queued updates before the next
\* event is handled, so the step ends in the re-rendered state; the call is
\* given the messages of the render the handler closed over.
HandleSend ==
    IF SendRejected
    THEN UNCHANGED <<messages, input, isLoading, calls, backendLog>>
    ELSE /\ Len(calls) < MaxTurns
         /\ messages' = Append(messages, Message("user", input))
         /\ input' = << >>
         /\ isLoading' = TRUE
         /\ calls' = Append(calls,
                [query    |-> input,
                 history  |-> messages,
                 language |-> language,
                 status   |-> "pending",
                 response |-> NoResponse,
                 answer   |-> << >>,
                 logged   |-> FALSE])
         /\ backendLog' = Append(backendLog,
                [call    |-> Len(calls) + 1,
                 request |-> AskRequest(input, messages, language)])

\* onKeyDown with e.key === 'Enter'
KeyDownEnter ==
    /\ mounted
    /\ Quiescent
    /\ HandleSend
    /\ lastEvent' = "enter"
    /\ UNCHANGED <<language, initialized, mounted, activated>>

\* A click on the send button; the button is disabled while isLoading.
ClickSend ==
    /\ mounted
    /\ Quiescent
    /\ IF isLoading
       THEN UNCHANGED <<messages, input, isLoading, calls, backendLog>>
       ELSE HandleSend
    /\ lastEvent' = "click"
    /\ UNCHANGED <<language, initialized, mounted, activated>>

\* A slip: a failed or empty call is issued once more.
AskSettleRetry(i, resp) ==
    /\ calls[i].status = "pending"
    /\ IF resp.ok /\ resp.hasText /\ Truthy(resp.text)
       THEN /\ calls' = [calls EXCEPT ![i] =
                    [query    |-> @.query,
                     history  |-> @.history,
                     language |-> @.language,
                     status   |-> "fulfilled",
                     response |-> resp,
                     answer   |-> resp.text,
                     logged   |-> FALSE]]
            /\ UNCHANGED backendLog
       ELSE /\ Len(backendLog) <= MaxTurns
            /\ backendLog' = Append(backendLog,
                    [call    |-> i,
                     request |-> AskRequest(calls[i].query, calls[i].history,
                                            calls[i].language)])
            /\ UNCHANGED calls
    /\ lastEvent' = "other"
    /\ UNCHANGED <<language, messages, input, isLoading, initialized, mounted,
                   activated>>

\* A slip: askOpticsExpert pushes its answer onto the array it was given
\* and onto the store.
AskSettleWritesHistory(i, resp) ==
    /\ calls[i].status = "pending"
    /\ calls' = [calls EXCEPT ![i] =
            [query    |-> @.query,
             history  |-> Append(@.history,
                                 [role |-> "model",
                                  text |-> AskOutcome(resp, @.language).answer]),
             language |-> @.language,
             status   |-> AskOutcome(resp, @.language).status,
             response |-> resp,
             answer   |-> AskOutcome(resp, @.language).answer,
             logged   |-> AskOutcome(resp, @.language).logged]]
    /\ messages' = Append(messages,
                          [role |-> "model",
                           text |-> AskOutcome(resp, calls[i].language).answer])
    /\ lastEvent' = "other"
    /\ UNCHANGED <<language, input, isLoading, initialized, mounted, backendLog,
                   activated>>

\* generateContent settles for invocation i and askOpticsExpert runs to its
\* return.
AskSettle(i, resp) ==
    /\ calls[i].status = "pending"
    /\ calls' = [calls EXCEPT ![i] =
            [query    |-> @.query,
             history  |-> @.history,
             language |-> @.language,
             status   |-> AskOutcome(resp, @.language).status,
             response |-> resp,
             answer   |-> AskOutcome(resp, @.language).answer,
             logged   |-> AskOutcome(resp, @.language).logged]]
    /\ lastEvent' = "other"
    /\ UNCHANGED <<language, messages, input, isLoading, initialized,
                   mounted, backendLog, activated>>

BackendSettles ==
    /\ Quiescent
    /\ \E i \in 1..Len(calls) : \E resp \in Responses : AskSettle(i, resp)

\* A slip: the continuation forgets setIsLoading(false).
HandleSendResumeKeepsLoading(i) ==
    /\ calls[i].status = "fulfilled"
    /\ messages' = Append(messages, Message("model", calls[i].answer))
    /\ calls' = [calls EXCEPT ![i].status = "consumed"]
    /\ lastEvent' = "other"
    /\ UNCHANGED <<language, input, isLoading, initialized, mounted,
                   backendLog, activated>>

\* handleSend after its await, for invocation i.
HandleSendResume(i) ==
    /\ calls[i].status = "fulfilled"
    /\ messages' = Append(messages, Message("model", calls[i].answer))
    /\ isLoading' = FALSE
    /\ calls' = [calls EXCEPT ![i].status = "consumed"]
    /\ lastEvent' = "other"
    /\ UNCHANGED <<language, input, initialized, mounted, backendLog, activated>>

Resume == \E i \in 1..Len(calls) : HandleSendResume(i)

Next ==
    \/ Mount
    \/ ToggleLanguage
    \/ OnChange
    \/ KeyDownEnter
    \/ ClickSend
    \/ BackendSettles
    \/ Resume

Spec == Init /\ [][Next]_vars

\* The backend call eventually settles (it replies or fails), and a settled
\* promise's continuation is run by the microtask queue.
FairSpec == Spec /\ WF_vars(BackendSettles) /\ WF_vars(Resume)

\* ------------------------------------------------------------------ claims

CallIds == 1..Len(calls)

Settled(i) == calls[i].status # "pending"

Failed(i) == Settled(i) /\ ~calls[i].response.ok

EmptyReply(i) ==
    /\ Settled(i)
    /\ calls[i].response.ok
    /\ (~calls[i].response.hasText \/ calls[i].response.text = << >>)

TextReply(i) ==
    /\ Settled(i)
    /\ calls[i].response.ok
    /\ calls[i].response.hasText
    /\ calls[i].response.text # << >>

\* The request that invocation i handed to the backend.
RequestsOf(i) == {k \in 1..Len(backendLog) : backendLog[k].call = i}

\* C1: for a non-empty query, whatever the history, the language and the
\* backend's behaviour (reply, empty reply, error), the promise of
\* askOpticsExpert is fulfilled, never rejected, with a non-empty string.
C1_AskResolvesNonEmpty ==
    \A i \in CallIds :
        (Trim(calls[i].query) # << >> /\ Settled(i)) =>
            /\ calls[i].status \in {"fulfilled", "consumed"}
            /\ calls[i].answer # << >>
            /\ Len(calls[i].answer) > 0

\* Two invocations have settled, one on a backend error and one on an empty
\* reply.
C1_Witness ==
    \E i, j \in CallIds :
        /\ Failed(i)
        /\ EmptyReply(j)
        /\ Trim(calls[i].query) # << >>
        /\ Trim(calls[j].query) # << >>

\* C2: the turn sequence sent to the backend is the history in its original
\* order, each turn with its message's role and text, followed by exactly
\* one user turn holding the query.
C2_TurnsAreHistoryThenQuery ==
    \A k \in 1..Len(backendLog) :
        LET c == calls[backendLog[k].call]
            t == backendLog[k].request.contents
        IN  /\ Len(t) = Len(c.history) + 1
            /\ \A n \in 1..Len(c.history) :
                   /\ t[n].role = c.history[n].role
                   /\ t[n].parts = <<[text |-> c.history[n].text]>>
            /\ t[Len(t)].role = "user"
            /\ t[Len(t)].parts = <<[text |-> c.query]>>

\* A request was sent whose history holds three messages, of both roles.
C2_Witness ==
    \E k \in 1..Len(backendLog) :
        LET c == calls[backendLog[k].call]
        IN  /\ Len(c.history) = 3
            /\ c.history[2].role = "user"
            /\ c.history[3].role = "model"
            /\ Len(backendLog[k].request.contents) = 4

\* C3: when the backend call fails, the promise is fulfilled with exactly
\* the fixed error string of the language passed to that call; the error
\* does not reach the caller.
C3_FailureGivesErrorString ==
    \A i \in CallIds :
        Failed(i) =>
            /\ calls[i].status # "rejected"
            /\ calls[i].language = "en" =>
                   calls[i].answer =
                       <<"Error connecting to the Optics AI Tutor. Please check your API key.">>
            /\ calls[i].language = "zh" =>
                   calls[i].answer =
                       <<"zh: Failed to connect to the AI tutor, please check the API key.">>

\* A failed call in each language, the English one made while the UI
\* language has since changed back.
C3_Witness ==
    \E i, j \in CallIds :
        /\ Failed(i) /\ calls[i].language = "en"
        /\ Failed(j) /\ calls[j].language = "zh"

\* C4: when the backend call succeeds with no text, the promise is
\* fulfilled with the "no answer" string of the call's language, which
\* differs from that language's error string, and nothing is logged.
C4_EmptyReplyGivesFallback ==
    \A i \in CallIds :
        EmptyReply(i) =>
            /\ calls[i].language = "en" =>
                   calls[i].answer =
                       <<"I couldn't generate a response regarding optics at the moment.">>
            /\ calls[i].language = "zh" =>
                   calls[i].answer =
                       <<"zh: Sorry, I cannot answer optics questions right now.">>
            /\ calls[i].answer # ErrorText(calls[i].language)
            /\ ~calls[i].logged

\* An empty reply ('' in one call, undefined in the other) in each language.
C4_Witness ==
    \E i, j \in CallIds :
        /\ EmptyReply(i) /\ calls[i].language = "en"
        /\ EmptyReply(j) /\ calls[j].language = "zh"
        /\ calls[i].response.hasText # calls[j].response.hasText

\* C5: when the backend call succeeds with a non-empty text, the promise is
\* fulfilled with exactly that text, in either language.
C5_ReplyReturnedVerbatim ==
    \A i \in CallIds :
        TextReply(i) => calls[i].answer = calls[i].response.text

\* A non-empty reply in each language.
C5_Witness ==
    \E i, j \in CallIds :
        /\ TextReply(i) /\ calls[i].language = "en"
        /\ TextReply(j) /\ calls[j].language = "zh"

Range(f) == {f[x] : x \in DOMAIN f}

IsPrefix(a, b) == Len(a) <= Len(b) /\ SubSeq(b, 1, Len(a)) = a

Outstanding == {i \in CallIds : calls[i].status \in {"pending", "fulfilled"}}

\* C6: every invocation of askOpticsExpert hands exactly one request to the
\* backend, with temperature 0.7 and the fixed model identifier; a failure
\* or an empty reply is followed by no second request.
C6_OneBackendCallPerAsk ==
    /\ \A i \in CallIds : Cardinality(RequestsOf(i)) = 1
    /\ \A k \in 1..Len(backendLog) :
           /\ backendLog[k].call \in CallIds
           /\ backendLog[k].request.temperature = 7
           /\ backendLog[k].request.model = "gemini-2.5-flash"

\* A failed call and a call with an empty reply have both run to their end.
C6_Witness ==
    \E i, j \in CallIds :
        /\ Failed(i) /\ calls[i].status = "consumed"
        /\ EmptyReply(j) /\ calls[j].status = "consumed"
        /\ Len(backendLog) = 2

WithoutDirective(p) ==
    SelectSeq(p, LAMBDA x : x \notin {"Reply in English.",
        "Reply in Simplified Chinese.",
        "Explain concepts using standard Machine Vision terminology in Chinese."})

\* C7: the system prompt depends on the language only: zh gives the
\* directive to reply in Simplified Chinese, en gives "Reply in English."
\* and no Chinese directive, and the rest of the prompt is the same for
\* every call.
C7_PromptFollowsLanguage ==
    \A k \in 1..Len(backendLog) :
        LET c == calls[backendLog[k].call]
            p == backendLog[k].request.systemInstruction
        IN  /\ c.language = "zh" =>
                   "Reply in Simplified Chinese." \in Range(p)
            /\ c.language = "en" =>
                   /\ "Reply in English." \in Range(p)
                   /\ "Reply in Simplified Chinese." \notin Range(p)
            /\ \A m \in 1..Len(backendLog) :
                   LET d == calls[backendLog[m].call]
                       q == backendLog[m].request.systemInstruction
                   IN  /\ d.language = c.language => q = p
                       /\ WithoutDirective(q) = WithoutDirective(p)
                       /\ Len(WithoutDirective(p)) = 9

\* Two requests in different languages, with different queries and
\* histories.
C7_Witness ==
    \E k, m \in 1..Len(backendLog) :
        /\ calls[backendLog[k].call].language = "zh"
        /\ calls[backendLog[m].call].language = "en"
        /\ calls[backendLog[k].call].query # calls[backendLog[m].call].query
        /\ calls[backendLog[k].call].history # calls[backendLog[m].call].history

\* C8: askOpticsExpert only reads its history: the sequence it was given
\* never changes, the step in which it settles leaves the store as it is,
\* and the step in which it is called passes the store as it is and changes
\* it by the caller's append of the user message alone.
C8_AskLeavesHistoryAlone ==
    [][ /\ \A i \in CallIds :
               /\ i \in 1..Len(calls')
               /\ calls'[i].history = calls[i].history
        /\ (\E i \in CallIds :
               calls[i].status = "pending" /\ calls'[i].status # "pending")
             => messages' = messages
        /\ Len(calls') > Len(calls) =>
               /\ calls'[Len(calls')].history = messages
               /\ messages' =
                      Append(messages,
                             [role |-> "user", text |-> calls'[Len(calls')].query])
      ]_vars

\* A call over a history of three messages has settled on a backend error,
\* and the store is that history followed by the caller's user message.
C8_Witness ==
    \E i \in CallIds :
        /\ calls[i].status = "fulfilled"
        /\ Failed(i)
        /\ Len(calls[i].history) = 3
        /\ messages = Append(calls[i].history,
                             [role |-> "user", text |-> calls[i].query])

\* C9: at most one call is outstanding, and only while isLoading; while
\* isLoading, a submit attempt (Enter or the send button) starts no call and
\* appends no message.
C9_OneCallAtATime ==
    /\ [](Cardinality(Outstanding) <= 1)
    /\ [](Outstanding # {} => isLoading)
    /\ [][ (isLoading /\ lastEvent' \in {"enter", "click"}) =>
               /\ calls' = calls
               /\ backendLog' = backendLog
               /\ messages' = messages
               /\ isLoading' ]_vars

\* Enter was pressed on a sendable input while a call was outstanding.
C9_Witness ==
    /\ isLoading
    /\ lastEvent = "enter"
    /\ Trim(input) # << >>
    /\ Cardinality(Outstanding) = 1
    /\ Len(calls) < MaxTurns

\* C10: once seeded, the store only grows at its end: it begins with the
\* welcome message, and its content before a step is a prefix of its content
\* after the step, which adds at most one message.
C10_StoreAppendOnly ==
    /\ [](initialized =>
            /\ Len(messages) >= 1
            /\ messages[1].role = "model"
            /\ messages[1].text \in {WelcomeText(l) : l \in Languages})
    /\ [][ initialized =>
               /\ IsPrefix(messages, messages')
               /\ Len(messages') <= Len(messages) + 1 ]_vars

\* Two full turns were appended after the seed, and the language was
\* toggled since.
C10_Witness ==
    /\ initialized
    /\ Len(messages) = 5
    /\ language = "en"
    /\ messages[1].text = WelcomeText("zh")
    /\ messages[2].role = "user"
    /\ messages[5].role = "model"

\* C11: at session start, and each time the UI language changes to a
\* language that is active for the first time, the store is reset: after
\* the step it holds exactly one message, the model-role welcome message of
\* the now-current language, whatever it held before.
C11_ResetOnFirstActivation ==
    [][ ((~mounted /\ mounted')
            \/ (language' # language /\ language' \notin activated)) =>
            messages' = <<[role |-> "model", text |-> WelcomeText(language')]>>
      ]_vars

\* C12: a submit attempt (Enter or the send button) on an empty or
\* whitespace-only input changes nothing: no call, no request, no message,
\* and the input and the loading flag stay as they are; so no user message
\* with an empty or blank text is ever stored.
C12_BlankSubmitIsNoOp ==
    /\ [][ (lastEvent' \in {"enter", "click"} /\ Trim(input) = << >>) =>
               /\ calls' = calls
               /\ backendLog' = backendLog
               /\ messages' = messages
               /\ input' = input
               /\ isLoading' = isLoading ]_vars
    /\ [](\A k \in 1..Len(messages) :
            messages[k].role = "user" =>
                /\ messages[k].text # << >>
                /\ Trim(messages[k].text) # << >>)

\* Enter was pressed on a whitespace-only input while no call was
\* outstanding and a call could still be made; nothing was sent.
C12_Witness ==
    /\ lastEvent = "enter"
    /\ input = <<" ">>
    /\ ~isLoading
    /\ mounted
    /\ calls = << >>
    /\ Len(messages) = 1

ModelReplies == {k \in 2..Len(messages) : messages[k].role = "model"}

Consumed == {i \in CallIds : calls[i].status = "consumed"}

\* C13: a call goes from idle to request sent, to exactly one of reply,
\* empty reply and failure, and back to idle: given that the backend
\* settles, every accepted submission ends with exactly one model message
\* appended and the loading flag cleared, after which a submission is
\* accepted again; what a call answers depends on its own response and
\* language only.
C13_CallRunsToCompletion ==
    /\ [](\A i \in CallIds :
            /\ calls[i].status \in {"pending", "fulfilled", "consumed"}
            /\ Settled(i) => (Failed(i) \/ EmptyReply(i) \/ TextReply(i))
            /\ ~(Failed(i) /\ EmptyReply(i))
            /\ ~(Failed(i) /\ TextReply(i))
            /\ ~(EmptyReply(i) /\ TextReply(i)))
    /\ [](isLoading <=> Outstanding # {})
    /\ [](Cardinality(ModelReplies) = Cardinality(Consumed))
    /\ [](\A i, j \in CallIds :
            (/\ Settled(i) /\ Settled(j)
             /\ calls[i].response = calls[j].response
             /\ calls[i].language = calls[j].language)
                => calls[i].answer = calls[j].answer)
    /\ [][ \A i \in CallIds :
               calls'[i].status # calls[i].status =>
                   \/ calls[i].status = "pending" /\ calls'[i].status = "fulfilled"
                   \/ calls[i].status = "fulfilled" /\ calls'[i].status = "consumed"
         ]_vars
    /\ [][ (isLoading /\ ~isLoading') =>
               \E i \in CallIds :
                   /\ calls[i].status = "fulfilled"
                   /\ calls'[i].status = "consumed"
                   /\ messages' = Append(messages,
                          [role |-> "model", text |-> calls[i].answer]) ]_vars
    /\ [][ (~isLoading /\ mounted /\ lastEvent' \in {"enter", "click"}
                /\ Trim(input) # << >>) =>
               (vars' = vars \/ Len(calls') = Len(calls) + 1) ]_vars
    /\ (isLoading ~> (~isLoading /\ Outstanding = {}))

\* A first call failed and ran to its end, and a second submission was
\* accepted afterwards and ran to its end too.
C13_Witness ==
    /\ Len(calls) = 2
    /\ Failed(1)
    /\ calls[1].status = "consumed"
    /\ calls[2].status = "consumed"
    /\ ~isLoading
    /\ Len(messages) = 5

\* C14 as claimed: for every turn, the caller appends the user's message
\* and the reply only after the call has resolved, so while the call is
\* outstanding the store holds no message of that turn: it is the history
\* the call was given.
C14_NothingStoredWhileOutstanding ==
    \A i \in CallIds :
        calls[i].status = "pending" => messages = calls[i].history

\* C14 as amended: the caller appends the user's message before the call,
\* and the reply only after the call has resolved: while the call is
\* outstanding the store is the call's history followed by the user's
\* message of that turn, and a model message is appended only by the step
\* that consumes a resolved call, with that call's answer.
C14_ReplyOnlyAfterResolve ==
    /\ [](\A i \in Outstanding :
            messages = Append(calls[i].history,
                              [role |-> "user", text |-> calls[i].query]))
    /\ [][ (initialized /\ Len(messages') > Len(messages)
                /\ messages'[Len(messages')].role = "model") =>
               \E i \in CallIds :
                   /\ calls[i].status = "fulfilled"
                   /\ calls'[i].status = "consumed"
                   /\ messages'[Len(messages')].text = calls[i].answer ]_vars

\* A second call is outstanding: the store holds its user message after
\* the three messages the call was given.
C14_Witness ==
    \E i \in CallIds :
        /\ calls[i].status = "pending"
        /\ Len(calls[i].history) = 3
        /\ Len(messages) = 4
        /\ messages[4] = [role |-> "user", text |-> calls[i].query]

UserMessages == {k \in 1..Len(messages) : messages[k].role = "user"}

\* C15: once the welcome message is seeded, the stored roles alternate
\* strictly, beginning with the model's welcome message; the last message
\* is a user message exactly when a call is outstanding (isLoading), and
\* the user messages number the model replies after the welcome, plus one
\* while loading.
C15_RolesAlternate ==
    initialized =>
        /\ Len(messages) >= 1
        /\ \A k \in 1..Len(messages) :
               messages[k].role = (IF k % 2 = 1 THEN "model" ELSE "user")
        /\ (messages[Len(messages)].role = "user") <=> isLoading
        /\ Cardinality(UserMessages) =
               Cardinality(ModelReplies) + (IF isLoading THEN 1 ELSE 0)

\* A second call is outstanding after a complete first turn.
C15_Witness ==
    /\ initialized
    /\ isLoading
    /\ Len(messages) = 4
    /\ messages[3].role = "model"
    /\ messages[4].role = "user"
    /\ Cardinality(Outstanding) = 1

\* C16: for every submission handleSend accepts, the history passed to
\* askOpticsExpert is the store as it was before the user's message was
\* appended, and the turn sequence sent to the backend is, turn by turn, the
\* store right after that append; the last turn's text is the stored user
\* message's text.
C16_RequestMirrorsStore ==
    [][ Len(calls') > Len(calls) =>
            LET n == Len(calls')
                c == calls'[n]
                r == backendLog'[Len(backendLog')]
            IN  /\ n = Len(calls) + 1
                /\ Len(backendLog') = Len(backendLog) + 1
                /\ r.call = n
                /\ c.history = messages
                /\ Len(messages') = Len(messages) + 1
                /\ SubSeq(messages', 1, Len(messages)) = messages
                /\ messages'[Len(messages')].role = "user"
                /\ Len(r.request.contents) = Len(messages')
                /\ \A k \in 1..Len(messages') :
                       /\ r.request.contents[k].role = messages'[k].role
                       /\ r.request.contents[k].parts =
                              <<[text |-> messages'[k].text]>>
      ]_vars

\* A submission with surrounding whitespace was accepted on a store of
\* three messages; its request holds four turns.
C16_Witness ==
    \E k \in 1..Len(backendLog) :
        LET c == calls[backendLog[k].call]
        IN  /\ c.query = <<" ", "b", " ">>
            /\ Len(c.history) = 3
            /\ Len(backendLog[k].request.contents) = 4
            /\ c.status = "pending"
            /\ messages[4].text = <<" ", "b", " ">>

====
